---- MODULE Spec2Model ----
(***************************************************************************)
(* cross_entropy(Y, P) of codes/cross_entropy.py as a state machine.       *)
(*                                                                         *)
(* Number representation.  A probability is an integer number of quarters  *)
(* (k stands for k/4, so One = 4 stands for the literal 1 of `1-P[i]`);    *)
(* the grid holds a value below 0, the values 0 and 1, three values inside *)
(* (0,1) and a value above 1.  A label Y[i] is an integer weight.  A       *)
(* logarithm is an integer number of millionths, rounded to nearest, so    *)
(* sums and products by integer weights are exact; the rounding of float   *)
(* addition is not modelled.                                               *)
(*                                                                         *)
(* Indices are Python's (0-based): At(s, k) is s[k].                       *)
(***************************************************************************)
EXTENDS Integers, Sequences, FiniteSets

\* ---------------------------------------------------------------- bounds
MaxLen == 2

MaxWeight == 2

MaxCalls == 2

\* ------------------------------------------------------ number representation
One == 4

YVals == 0..MaxWeight

PVals == (0 - 1)..(One + 1)

SeqsUpTo(S, m) == UNION {[1..k -> S] : k \in 0..m}

\* math.log on the grid, in millionths: ln(x/4)
Ln(x) ==
  CASE x = 1 -> 0 - 1386294
    [] x = 2 -> 0 - 693147
    [] x = 3 -> 0 - 287682
    [] x = 4 -> 0
    [] x = 5 -> 223144

\* math.log raises ValueError (math domain error) unless its argument is > 0
LogDefined(x) == x > 0

\* s[k] with a Python index; valid when 0 <= k < len(s)
HasIndex(s, k) == 0 <= k /\ k < Len(s)

At(s, k) == s[k + 1]

\* ------------------------------------------------------------------ state
VARIABLES
  Y,        \* the caller's label list
  P,        \* the caller's prediction list
  pc,       \* "idle" | "loop" | "returned" | "raised"
  total,    \* local: the running total
  i,        \* local: the index the range iterator yields next
  n,        \* local: len(Y) as evaluated by range(len(Y)) at loop entry
  outcome,  \* what the caller has received from the current call
  calls,    \* number of calls started
  first,    \* observer: the outcome of the first call
  visited,  \* observer: indices whose loop body was entered, in order
  reads,    \* observer: subscript evaluations <<list, index>> of this call
  logArgs   \* observer: arguments passed to math.log in this call

vars == <<Y, P, pc, total, i, n, outcome, calls, first, visited, reads, logArgs>>

NoOutcome == [kind |-> "none"]

Finished == {"returned", "raised"}

Init ==
  /\ Y \in SeqsUpTo(YVals, MaxLen)
  /\ P \in SeqsUpTo(PVals, MaxLen)
  /\ pc = "idle"
  /\ total = 0
  /\ i = 0
  /\ n = 0
  /\ outcome = NoOutcome
  /\ calls = 0
  /\ first = NoOutcome
  /\ visited = <<>>
  /\ reads = <<>>
  /\ logArgs = <<>>

\* --------------------------------------------------------------- line 8
\* One product w*(-math.log(x)): the logarithm is evaluated first, whatever
\* the weight is, and raises when x <= 0.
\* faulty variant: the logarithm is skipped when its weight is zero
WeightedNegLogLazy(w, x) ==
  IF w = 0 THEN [ok |-> TRUE, val |-> 0]
  ELSE IF LogDefined(x) THEN [ok |-> TRUE, val |-> w * (0 - Ln(x))]
  ELSE [ok |-> FALSE]

WeightedNegLog(w, x) ==
  IF LogDefined(x) THEN [ok |-> TRUE, val |-> w * (0 - Ln(x))]
  ELSE [ok |-> FALSE]

\* the two products of line 8, left to right
FirstProduct(k) == WeightedNegLog(At(Y, k), At(P, k))

SecondProduct(k) == WeightedNegLog(1 - At(Y, k), One - At(P, k))

\* The exception line 8 raises at index k, or "none".  Evaluation order:
\* Y[k], P[k], math.log(P[k]), Y[k], P[k], math.log(1-P[k]).
Line8Fault(k) ==
  IF ~HasIndex(Y, k) THEN "IndexError"
  ELSE IF ~HasIndex(P, k) THEN "IndexError"
  ELSE IF ~FirstProduct(k).ok THEN "ValueError"
  ELSE IF ~SecondProduct(k).ok THEN "ValueError"
  ELSE "none"

\* the subscripts line 8 evaluates at index k, up to the first exception
Line8Reads(k) ==
  IF ~HasIndex(Y, k) THEN << <<"Y", k>> >>
  ELSE IF ~HasIndex(P, k) THEN << <<"Y", k>>, <<"P", k>> >>
  ELSE IF ~FirstProduct(k).ok THEN << <<"Y", k>>, <<"P", k>> >>
  ELSE << <<"Y", k>>, <<"P", k>>, <<"Y", k>>, <<"P", k>> >>

\* the arguments line 8 passes to math.log at index k, up to the first exception
Line8Logs(k) ==
  IF ~HasIndex(Y, k) \/ ~HasIndex(P, k) THEN <<>>
  ELSE IF ~FirstProduct(k).ok THEN << At(P, k) >>
  ELSE << At(P, k), One - At(P, k) >>

\* the value line 8 adds to total at index k (when nothing raises)
\* faulty variant: the two weights exchanged
TermSwapped(k) ==
  WeightedNegLog(1 - At(Y, k), At(P, k)).val
    + WeightedNegLog(At(Y, k), One - At(P, k)).val

\* faulty variant: math.log without the negation
TermNoNegation(k) == 0 - (FirstProduct(k).val + SecondProduct(k).val)

Term(k) == FirstProduct(k).val + SecondProduct(k).val

\* --------------------------------------------------------------- line 7
\* faulty variant: one iteration too many
InRangeOffByOne == i <= n

InRange == i < n

\* faulty variant: every other index
NextIndexSkip(k) == k + 2

NextIndex(k) == k + 1

\* ------------------------------------------------------------ operations
\* An exception leaves the function: nothing catches it, the frame's total is
\* not part of what the caller receives.
\* faulty variant: the exception is swallowed and the partial total returned
RaiseReturnsPartial(err) ==
  /\ pc' = "returned"
  /\ outcome' = [kind |-> "value", value |-> total]
  /\ first' = IF calls = 1 THEN outcome' ELSE first
  /\ UNCHANGED <<total, i>>

Raise(err) ==
  /\ pc' = "raised"
  /\ outcome' = [kind |-> "error", error |-> err]
  /\ first' = IF calls = 1 THEN outcome' ELSE first
  /\ UNCHANGED <<total, i>>

\* lines 5-7: function entry, total=0, range(len(Y)) is built once
\* faulty variant: total survives from the previous call
CallStaleTotal ==
  /\ pc \in {"idle"} \cup Finished
  /\ calls < MaxCalls
  /\ calls' = calls + 1
  /\ pc' = "loop"
  /\ total' = total
  /\ i' = 0
  /\ n' = Len(Y)
  /\ outcome' = NoOutcome
  /\ visited' = <<>>
  /\ reads' = <<>>
  /\ logArgs' = <<>>
  /\ UNCHANGED <<Y, P, first>>

\* faulty variant: range(len(P))
CallRangeOfP ==
  /\ pc \in {"idle"} \cup Finished
  /\ calls < MaxCalls
  /\ calls' = calls + 1
  /\ pc' = "loop"
  /\ total' = 0
  /\ i' = 0
  /\ n' = Len(P)
  /\ outcome' = NoOutcome
  /\ visited' = <<>>
  /\ reads' = <<>>
  /\ logArgs' = <<>>
  /\ UNCHANGED <<Y, P, first>>

Call ==
  /\ pc \in {"idle"} \cup Finished
  /\ calls < MaxCalls
  /\ calls' = calls + 1
  /\ pc' = "loop"
  /\ total' = 0
  /\ i' = 0
  /\ n' = Len(Y)
  /\ outcome' = NoOutcome
  /\ visited' = <<>>
  /\ reads' = <<>>
  /\ logArgs' = <<>>
  /\ UNCHANGED <<Y, P, first>>

\* lines 7-8: one loop iteration, which accumulates or raises
Iterate ==
  /\ pc = "loop"
  /\ InRange
  /\ visited' = Append(visited, i)
  /\ reads' = reads \o Line8Reads(i)
  /\ logArgs' = logArgs \o Line8Logs(i)
  /\ IF Line8Fault(i) # "none"
       THEN Raise(Line8Fault(i))
       ELSE /\ total' = total + Term(i)
            /\ i' = NextIndex(i)
            /\ pc' = "loop"
            /\ UNCHANGED <<outcome, first>>
  /\ UNCHANGED <<Y, P, n, calls>>

\* line 9: the range is exhausted, return total
\* faulty variant: the mean instead of the sum
ReturnMean ==
  /\ pc = "loop"
  /\ ~InRange
  /\ pc' = "returned"
  /\ outcome' = [kind |-> "value",
                 value |-> IF n = 0 THEN 0 ELSE total \div n]
  /\ first' = IF calls = 1 THEN outcome' ELSE first
  /\ UNCHANGED <<Y, P, total, i, n, calls, visited, reads, logArgs>>

Return ==
  /\ pc = "loop"
  /\ ~InRange
  /\ pc' = "returned"
  /\ outcome' = [kind |-> "value", value |-> total]
  /\ first' = IF calls = 1 THEN outcome' ELSE first
  /\ UNCHANGED <<Y, P, total, i, n, calls, visited, reads, logArgs>>

Next == Call \/ Iterate \/ Return

Spec == Init /\ [][Next]_vars

\* A started call runs to its end: the function is synchronous and
\* single-threaded, nothing suspends it.
FairSpec == Init /\ [][Next]_vars /\ WF_vars(Iterate \/ Return)

\* ------------------------------------------------- vocabulary of the claims
InOpenUnit(p) == 0 < p /\ p < One

EqualLen == Len(Y) = Len(P)

ValidP == \A k \in 1..Len(P) : InOpenUnit(P[k])

BinaryY == \A k \in 1..Len(Y) : Y[k] \in {0, 1}

NegLn(p) == 0 - Ln(p)

\* sum over the first k samples of Y[j]*(-ln P[j]) + (1-Y[j])*(-ln(1-P[j]))
RECURSIVE SumFormula(_)
SumFormula(k) ==
  IF k = 0 THEN 0
  ELSE SumFormula(k - 1) + Y[k] * NegLn(P[k]) + (1 - Y[k]) * NegLn(One - P[k])

\* Python indices of Y at which line 8 cannot be evaluated
FaultyIndices ==
  {k \in 0..(Len(Y) - 1) : k >= Len(P) \/ ~InOpenUnit(P[k + 1])}

MinOf(S) == CHOOSE m \in S : \A x \in S : m <= x

ErrorAt(k) == IF k >= Len(P) THEN "IndexError" ELSE "ValueError"

\* ------------------------------------------------------------------ C1
\* C1: for Y and P of equal length with every P[i] strictly inside (0,1),
\* the returned value is exactly the sum over all indices of
\* Y[i]*(-ln P[i]) + (1-Y[i])*(-ln(1-P[i])); it is not divided by N.
C1_ReturnsSum ==
  (pc = "returned" /\ EqualLen /\ ValidP)
    => outcome = [kind |-> "value", value |-> SumFormula(Len(Y))]

C1_Witness ==
  /\ pc = "returned" /\ EqualLen /\ ValidP
  /\ Len(Y) = MaxLen
  /\ outcome.value > 0
  /\ \E k \in 1..Len(Y) : Y[k] \notin {0, 1}

\* ------------------------------------------------------------------ C2
\* C2: whenever len(Y) # len(P), with P shorter or longer than Y, the call
\* ends with an error and never with a value.
C2_MismatchRaises ==
  (pc \in Finished /\ ~EqualLen) => outcome.kind = "error"

\* ------------------------------------------------------------------ C3
\* C3: for Y and P of equal length in which some P[i] is 0, 1, below 0 or
\* above 1, the call ends with a math domain error and no value, whatever
\* Y[i] is, also when Y[i] gives the offending logarithm the weight zero.
C3_DomainError ==
  (pc \in Finished /\ EqualLen /\ ~ValidP)
    => /\ pc = "raised"
       /\ outcome = [kind |-> "error", error |-> "ValueError"]

C3_Witness ==
  /\ pc = "raised" /\ EqualLen
  /\ outcome.error = "ValueError"
  /\ Y = <<1, 0>>
  /\ P = <<2, 0>>

\* ------------------------------------------------------------------ C4
\* C4: cross_entropy([], []) returns 0: no loop iteration runs, no logarithm
\* is evaluated, no error is raised.
C4_EmptyReturnsZero ==
  (Y = <<>> /\ P = <<>>)
    => /\ pc # "raised"
       /\ visited = <<>>
       /\ logArgs = <<>>
       /\ reads = <<>>
       /\ pc = "returned" => outcome = [kind |-> "value", value |-> 0]

C4_Witness == Y = <<>> /\ P = <<>> /\ pc = "returned" /\ outcome.value = 0

\* ------------------------------------------------------------------ C5
\* C5: for Y and P of equal length with every Y[i] in {0,1} and every P[i]
\* strictly inside (0,1), the running total is non-negative after every
\* iteration, never decreases from one iteration to the next, and the
\* returned result is non-negative.
C5_Pre == EqualLen /\ BinaryY /\ ValidP

C5_NonNegativeMonotone ==
  /\ [](C5_Pre => total >= 0)
  /\ [](C5_Pre /\ pc = "returned" => outcome.value >= 0)
  /\ [][C5_Pre /\ pc = "loop" => total' >= total]_vars

C5_Witness ==
  /\ C5_Pre /\ pc = "returned"
  /\ Len(Y) = MaxLen
  /\ outcome.value > 0

\* ------------------------------------------------------------------ C6
\* C6: cross_entropy([1],[p]) = -ln(p) and cross_entropy([0],[p]) = -ln(1-p)
\* for p strictly inside (0,1); in general an index with Y[i] = 1 adds
\* exactly -ln(P[i]) to the total and an index with Y[i] = 0 adds exactly
\* -ln(1-P[i]).
C6_Accumulated ==
  /\ pc = "loop" /\ pc' = "loop"
  /\ Len(visited') = Len(visited) + 1

C6_Index == visited'[Len(visited')]

C6_LabelSelectsLog ==
  /\ [](\A p \in PVals :
          (pc = "returned" /\ InOpenUnit(p) /\ P = <<p>>)
            => /\ Y = <<1>> => outcome.value = NegLn(p)
               /\ Y = <<0>> => outcome.value = NegLn(One - p))
  /\ [][C6_Accumulated =>
          /\ At(Y, C6_Index) = 1 => total' - total = NegLn(At(P, C6_Index))
          /\ At(Y, C6_Index) = 0 => total' - total = NegLn(One - At(P, C6_Index))]_vars

C6_Witness ==
  /\ pc = "returned"
  /\ Y = <<1, 0>>
  /\ P = <<1, 1>>
  /\ outcome.value = NegLn(1) + NegLn(3)

\* ------------------------------------------------------------------ C7
\* C7: a call ends with exactly one of a returned value or an error; when an
\* index faults, the total accumulated below it is not part of what the
\* caller receives, and the function does not go on after the fault.
C7_ValueOrError ==
  /\ [](pc \notin Finished => outcome = NoOutcome)
  /\ [](pc = "returned" => outcome = [kind |-> "value", value |-> total])
  /\ [](pc = "raised" =>
          /\ outcome.kind = "error"
          /\ DOMAIN outcome = {"kind", "error"})
  /\ [](pc \in Finished /\ FaultyIndices # {} => pc = "raised")
  /\ [][pc = "raised" => calls' = calls + 1]_vars

C7_Witness ==
  /\ pc = "raised"
  /\ i >= 1
  /\ total > 0
  /\ outcome.kind = "error"

\* ------------------------------------------------------------------ C8
\* C8: cross_entropy is pure: no step changes Y or P, an iteration writes
\* only the locals, and a second call with the same Y and P gives the same
\* outcome as the first.
C8_Pure ==
  /\ [][Y' = Y /\ P' = P]_vars
  /\ [][pc = "loop" /\ pc' = "loop" => outcome' = outcome /\ n' = n]_vars
  /\ [](calls >= 2 /\ pc \in Finished => outcome = first)

C8_Witness ==
  /\ calls = 2 /\ pc = "returned"
  /\ first.kind = "value"
  /\ first.value # 0
  /\ outcome = first

\* ------------------------------------------------------------------ C9
\* C9: indices are visited in ascending order 0, 1, ..., len(Y)-1, each at
\* most once; Y and P are subscripted only at the index being visited and P
\* never at an index >= len(Y); the error that reaches the caller is that of
\* the smallest faulting index and no index above it is evaluated.
C9_InOrder ==
  /\ [](\A j \in 1..Len(visited) : visited[j] = j - 1)
  /\ [](Len(visited) <= Len(Y))
  /\ [](pc = "returned" => Len(visited) = Len(Y))
  /\ [](\A j \in 1..Len(reads) :
          /\ reads[j][2] < Len(Y)
          /\ \E v \in 1..Len(visited) : visited[v] = reads[j][2])
  /\ [][\A j \in (Len(reads) + 1)..Len(reads') :
          Len(visited') = Len(visited) + 1
            /\ reads'[j][2] = visited'[Len(visited')]]_vars
  /\ [](pc = "raised" =>
          /\ FaultyIndices # {}
          /\ i = MinOf(FaultyIndices)
          /\ visited[Len(visited)] = i
          /\ outcome.error = ErrorAt(i))
  /\ [](pc = "returned" => FaultyIndices = {})

C9_Witness ==
  /\ pc = "raised"
  /\ Len(Y) = MaxLen
  /\ Cardinality(FaultyIndices) >= 2
  /\ i = 0

\* ----------------------------------------------------------------- C10
\* C10: every call terminates: it returns after exactly len(Y) iterations or
\* raises during an iteration numbered at most len(Y); the iteration count
\* is fixed by len(Y) at loop entry, whatever the values in Y and P.
C10_Terminates ==
  /\ [](pc = "loop" => n = Len(Y))
  /\ [](pc = "returned" => Len(visited) = Len(Y))
  /\ [](pc = "raised" => Len(visited) >= 1 /\ Len(visited) <= Len(Y))
  /\ (pc = "loop" ~> pc \in Finished)

C10_Witness ==
  /\ pc = "returned"
  /\ Len(Y) = MaxLen
  /\ Len(visited) = MaxLen
  /\ n = MaxLen
  /\ calls = MaxCalls

====
